---- MODULE Spec2Model ----
(***************************************************************************)
(* Model of src/renderer_server/backend/multithreaded.rs: the client side  *)
(* of the two-process turtle backend.  One client thread spawns companion  *)
(* renderer processes (RendererServerProcess::spawn), performs the one-shot*)
(* name handshake (RendererServer::spawn), uses the connection, and tears  *)
(* the session down in Drop for RendererServerProcess.  The companion      *)
(* processes and the tokio runtime that polls the supervision tasks are    *)
(* the environment.                                                        *)
(***************************************************************************)
EXTENDS Integers, Sequences, FiniteSets, TLC

\* ---------------------------------------------------------------- bounds
\* Number of RendererServer::spawn() calls the client thread may make.
MaxSpawns == 2
\* Number of send/recv calls per session.
MaxMsgs == 1
\* Longest generated one-shot name, in bytes.
MaxNameLen == 2

\* ------------------------------------------------------- program constants
RENDERER_PROCESS_ENV_VAR == "RUN_TURTLE_CANVAS"
\* The value .env(RENDERER_PROCESS_ENV_VAR, "true") gives the marker.
MarkerValue == "true"
\* b'\n'
Newline == 10
\* process::exit(proc_status.code().unwrap_or(1))
GenericFailureCode == 1
\* .kill_on_drop(true)
KillOnDrop == TRUE

\* ------------------------------------------------------------- Option<T>
None == << >>
Some(x) == << x >>
IsSome(o) == o # None
Unwrap(o) == o[1]
UnwrapOr(o, d) == IF o = None THEN d ELSE o[1]

\* ------------------------------------------------------------ ExitStatus
\* std::process::ExitStatus: code() is Some(c) for a process that exited,
\* None for one that was terminated by a signal.
ExitCodes == {0, 1, 3}
ExitStatuses == {[code |-> Some(c)] : c \in ExitCodes} \cup {[code |-> None]}
KilledStatus == [code |-> None]
\* ExitStatus::success()
Success(st) == st.code = Some(0)

\* -------------------------------------------------- the client's own state
\* Environments are functions from variable names to values.
ClientEnvs ==
    { ("HOME" :> "/home/u"),
      ("HOME" :> "/home/u") @@ (RENDERER_PROCESS_ENV_VAR :> "false"),
      ("HOME" :> "/home/u") @@ (RENDERER_PROCESS_ENV_VAR :> "true") }
ClientArgvs == { << >>, << "--fast" >> }
\* env::current_exe()
CurrentExe == "/bin/turtle_app"
\* The exit codes the client's own main may return with.
OwnCodes == {0, 2}

\* The tokio runtime context a thread can be in at the moment it calls
\* RendererServer::spawn() or drops the struct: "none" (no runtime context),
\* "entered" (the context of a runtime is set, the thread is driven by another
\* executor), "driven" (the thread is inside the runtime: Runtime::block_on or
\* a runtime task).  The caller may enter and leave the runtime between calls.
ThreadContexts == {"none", "entered", "driven"}
\* Lines 118, 122: tokio::spawn and Handle::current() need the context of a
\* runtime.
HasRuntimeContext(c) == c # "none"
\* Line 110: Command::spawn() registers the child's pipe with the I/O driver
\* of the runtime whose context the thread has; io tells whether that runtime
\* was built with its I/O driver enabled.
HasIoDriver(c, io) == HasRuntimeContext(c) /\ io
\* Line 165: a thread that is inside the runtime cannot block_on.
InsideRuntime(c) == c = "driven"

\* The names ClientConnection::new may generate: byte strings without newline.
Names == { [i \in 1..n |-> 96 + i] : n \in 1..MaxNameLen }

VARIABLES
    pc,          \* position of the client thread
    panicking,   \* thread::panicking() of the client thread
    clientEnv,   \* environment of the client process
    clientArgs,  \* command-line arguments of the client process
    clientEnd,   \* "running", "returned", "exit" (process::exit), "panic"
    clientCode,  \* Option: exit code of the client process
    calls,       \* number of RendererServer::spawn() calls started
    spawned,     \* per call: how RendererServerProcess::spawn() ended
    cur,         \* the current call: what has happened in it so far
    children,    \* companion processes created by the OS, in creation order
    tasks,       \* supervision tasks spawned on the runtime, in creation order
    proc,        \* the live RendererServerProcess struct, if any
    wbuf,        \* writeln: the bytes of the current write_all
    woff,        \* writeln: how many bytes of wbuf are written
    runtime,     \* start() has built the server's Runtime
    signal,      \* the `async {}` future start() hands to run_main
    alive        \* the client process still exists

vars == << pc, panicking, clientEnv, clientArgs, alive, runtime, signal, clientEnd, clientCode,
           calls, spawned, cur, children, tasks, proc, wbuf, woff >>

NoProc == [exists |-> FALSE, task_handle |-> None, child_stdin |-> None]

NewSession ==
    [ cause   |-> "none",      \* RendererServerProcess::spawn: which outcome it met
      proc    |-> "pending",   \* RendererServerProcess::spawn: ok / io_err / panic
      result  |-> "pending",   \* RendererServer::spawn: ok / conn_err / panic
      name    |-> << >>,       \* the one-shot name generated for the handshake
      written |-> << >>,       \* the bytes written through child_stdin so far
      sent    |-> "none",      \* send_ipc_oneshot_name: ok / err
      waited  |-> FALSE,       \* the client has started waiting for the connect-back
      hs      |-> "none",      \* handshake: done / failed
      sends   |-> 0,           \* send calls made on the connection
      recvs   |-> 0,           \* recv calls made on the connection
      dropped |-> "none",      \* Drop: "normal" or "panic" path taken
      outcome |-> "none" ]     \* Drop: blocked / returned / exit / fatal

Init ==
    /\ pc = "start"
    /\ runtime = FALSE
    /\ signal = "none"
    /\ panicking = FALSE
    /\ clientEnv \in ClientEnvs
    /\ clientArgs \in ClientArgvs
    /\ clientEnd = "running"
    /\ clientCode = None
    /\ calls = 0
    /\ spawned = << >>
    /\ cur = NewSession
    /\ children = << >>
    /\ tasks = << >>
    /\ proc = NoProc
    /\ wbuf = << >>
    /\ woff = 0
    /\ alive = TRUE

\* -------------------------------------------------- RendererServer::start
\* env::var(name).ok(): Some(value) when the variable is set.
EnvVar(env, name) == IF name \in DOMAIN env THEN Some(env[name]) ELSE None

\* Line 45: env::var(RENDERER_PROCESS_ENV_VAR).ok().as_deref() == Some("true")
SelectsServerIfPresent(env) == IsSome(EnvVar(env, RENDERER_PROCESS_ENV_VAR))
SelectsServer(env) == EnvVar(env, RENDERER_PROCESS_ENV_VAR) = Some("true")

\* RendererServer::start(), lines 36-56, up to the call of run_main.  In the
\* server role it builds the Runtime (the expect panics if that fails) and
\* enters run_main with the `async {}` future; otherwise it returns at once.
\* The program calls it first, and may call it again wherever main is.
Start ==
    /\ pc \in {"start", "main"}
    /\ clientEnd = "running"
    /\ IF SelectsServer(clientEnv)
       THEN \E built \in BOOLEAN :
              IF built
              THEN /\ runtime' = TRUE
                   /\ signal' = "created"
                   /\ pc' = "run_main"
                   /\ UNCHANGED << panicking, clientEnd >>
              ELSE /\ pc' = "panicked"
                   /\ panicking' = TRUE
                   /\ clientEnd' = "panic"
                   /\ UNCHANGED << runtime, signal >>
       ELSE /\ pc' = "main"
            /\ UNCHANGED << runtime, signal, panicking, clientEnd >>
    /\ UNCHANGED << clientEnv, clientArgs, alive, clientCode, calls, spawned, cur,
                    children, tasks, proc, wbuf, woff >>

\* Line 53: the future `async {}`.  Its body is empty, so the first poll
\* returns Ready(()).
PollStaysPending(sig) == "pending"
PollAsyncBlock(sig) == "ready"

\* run_main polls the future it was given.
PollSignal ==
    /\ pc = "run_main"
    /\ signal = "created"
    /\ signal' = PollAsyncBlock(signal)
    /\ UNCHANGED << pc, panicking, clientEnv, clientArgs, alive, clientEnd, clientCode,
                    calls, spawned, cur, children, tasks, proc, wbuf, woff,
                    runtime >>

\* Line 54: unreachable!("bug: renderer loop did not exit after finishing")
AfterRunMainFallsThrough == "main"
AfterRunMain == "panicked"

\* run_main returns to start(), which hits the unreachable!.
RunMainReturns ==
    /\ pc = "run_main"
    /\ pc' = AfterRunMain
    /\ IF AfterRunMain = "panicked"
       THEN /\ panicking' = TRUE
            /\ clientEnd' = "panic"
       ELSE UNCHANGED << panicking, clientEnd >>
    /\ UNCHANGED << clientEnv, clientArgs, alive, runtime, signal, clientCode, calls,
                    spawned, cur, children, tasks, proc, wbuf, woff >>

\* ------------------------------------------- RendererServerProcess::spawn
\* The environment std/tokio Command gives the child: the parent's environment
\* is inherited (no env_clear()), and a variable set with .env() overrides an
\* inherited one of the same name.
ChildEnvParentWins(parent) == parent @@ (RENDERER_PROCESS_ENV_VAR :> MarkerValue)
ChildEnv(parent) == (RENDERER_PROCESS_ENV_VAR :> MarkerValue) @@ parent

\* Command::new(current_exe) with no .args(): the child gets no arguments.
ChildArgs(parentArgs) == << >>

\* The child process the OS creates for call c.
NewChild(c) ==
    [ call           |-> c,
      exe            |-> CurrentExe,
      args           |-> ChildArgs(clientArgs),
      env            |-> ChildEnv(clientEnv),
      state          |-> "running",      \* "running" or "exited"
      status         |-> None,           \* Option<ExitStatus>
      killedByClient |-> FALSE,          \* killed through kill_on_drop
      kill_on_drop   |-> KillOnDrop ]

\* Drop for tokio::process::Child: with kill_on_drop set, a child that has not
\* been reaped is killed.
DropChild(ch) ==
    IF ch.kill_on_drop /\ ch.state = "running"
    THEN [ch EXCEPT !.state = "exited", !.status = Some(KilledStatus),
                    !.killedByClient = TRUE]
    ELSE ch

\* The task tokio::spawn(child) creates, and the RemoteHandle to it.
NewTask(c, ch) ==
    [ call   |-> c,
      child  |-> ch,
      state  |-> "pending",   \* "pending", "done" or "cancelled"
      output |-> None,        \* Option<io::Result<ExitStatus>>
      handle |-> "field" ]    \* RemoteHandle: "field", "taken", "awaited", "dropped"

\* What RendererServer::spawn does after RendererServerProcess::spawn()? has
\* returned Ok: it awaits ClientConnection::new before building Self.
AfterProcSpawnSkipsHandshake == "ready"
AfterProcSpawn == "conn_new"

\* RendererServer::spawn line 61: RendererServerProcess::spawn()?, the whole of
\* lines 98-125.  The outcomes: current_exe() fails; Command::spawn() fails
\* before the OS has created the process; Command::spawn() fails after the
\* process was created, when the stdin pipe cannot be set up for the runtime;
\* Command::spawn() panics because the thread has no I/O driver to register
\* the pipe with ("there is no reactor running"); or Ok.  With Stdio::piped()
\* a Child that was returned always has its stdin, so the expect at lines
\* 112-113 does not fire.
SpawnOutcomes == {"exe_err", "os_err", "pipe_err", "no_reactor", "ok"}

\* The outcomes a call can meet on a thread with context c of a runtime whose
\* I/O driver is enabled or not.  Without an I/O driver (no runtime context,
\* or a runtime built without one) Command::spawn() cannot register the pipe,
\* so the call never gets past line 110.
OutcomePossible(o, c, io) ==
    CASE o \in {"exe_err", "os_err"} -> TRUE
      [] o = "no_reactor" -> ~HasIoDriver(c, io)
      [] o \in {"pipe_err", "ok"} -> HasIoDriver(c, io)

\* How RendererServerProcess::spawn ends on each outcome: the two `?` return
\* the io::Error, Command::spawn() panics without an I/O driver.
SpawnResultExeUnwrapped(o) ==
    CASE o \in {"os_err", "pipe_err"} -> "io_err"
      [] o \in {"exe_err", "no_reactor"} -> "panic"
      [] o = "ok" -> "ok"
SpawnResult(o) ==
    CASE o \in {"exe_err", "os_err", "pipe_err"} -> "io_err"
      [] o = "no_reactor" -> "panic"
      [] o = "ok" -> "ok"

\* The outcomes in which the OS has created the process: the error of the
\* pipe set-up and the panic for the missing I/O driver come after the process
\* was forked.  In both Command::spawn() has not yet built the tokio Child,
\* the value that carries kill_on_drop, and the std handle that is dropped
\* does not kill the process: it stays running, with its stdin closed.
ProcessCreated(o) == o \in {"pipe_err", "no_reactor", "ok"}

\* Line 119: let task_handle = Some(child_handle)
InitialTaskHandleNone(t) == None
InitialTaskHandle(t) == Some(t)

ProcessSpawn ==
    /\ pc = "main"
    /\ clientEnd = "running"
    /\ calls < MaxSpawns
    /\ calls' = calls + 1
    /\ \E o \in SpawnOutcomes, ctx \in ThreadContexts, io \in BOOLEAN :
        LET c == calls + 1 IN
        /\ OutcomePossible(o, ctx, io)
        /\ CASE SpawnResult(o) = "io_err" ->
                  \* `?` returns the io::Error; RendererServer::spawn's `?` turns it
                  \* into a ConnectionError.  A process created by then is left.
                  /\ spawned' = Append(spawned, "io_err")
                  /\ cur' = [NewSession EXCEPT !.cause = o, !.proc = "io_err",
                                               !.result = "conn_err"]
                  /\ children' = IF ProcessCreated(o)
                                 THEN Append(children, NewChild(c))
                                 ELSE children
                  /\ pc' = "main"
                  /\ UNCHANGED << panicking, clientEnd, tasks, proc >>
             [] SpawnResult(o) = "panic" ->
                  \* The panic unwinds; a process created by then is left.
                  /\ spawned' = Append(spawned, "panic")
                  /\ cur' = [NewSession EXCEPT !.cause = o, !.proc = "panic",
                                               !.result = "panic"]
                  /\ children' = IF ProcessCreated(o)
                                 THEN Append(children, NewChild(c))
                                 ELSE children
                  /\ pc' = "panicked"
                  /\ panicking' = TRUE
                  /\ clientEnd' = "panic"
                  /\ UNCHANGED << tasks, proc >>
             [] SpawnResult(o) = "ok" ->
                  /\ spawned' = Append(spawned, "ok")
                  /\ cur' = [NewSession EXCEPT !.cause = o, !.proc = "ok"]
                  /\ children' = Append(children, NewChild(c))
                  /\ tasks' = Append(tasks, NewTask(c, Len(children) + 1))
                  /\ proc' = [exists |-> TRUE,
                              task_handle |-> InitialTaskHandle(Len(tasks) + 1),
                              child_stdin |-> Some(Len(children) + 1)]
                  /\ pc' = AfterProcSpawn
                  /\ UNCHANGED << panicking, clientEnd >>
    /\ UNCHANGED << clientEnv, clientArgs, alive, runtime, signal, clientCode, wbuf, woff >>

\* ------------------------------------------------- ClientConnection::new
\* ClientConnection::new(|name| proc.send_ipc_oneshot_name(name)): generates a
\* fresh one-shot name and calls the callback with it.
ConnNewStart ==
    /\ pc = "conn_new"
    /\ \E name \in Names :
        /\ cur' = [cur EXCEPT !["name"] = name]
        /\ wbuf' = name
    /\ woff' = 0
    /\ pc' = "write_data"
    /\ UNCHANGED << panicking, clientEnv, clientArgs, alive, runtime, signal, clientEnd, clientCode,
                    calls, spawned, children, tasks, proc >>

\* ------------------------------------ send_ipc_oneshot_name / writeln
\* AsyncWriteExt::write_all: keeps writing until the whole buffer is written.
WriteOnceDone(buf, off) == off >= 1
WriteAllDone(buf, off) == off = Len(buf)

\* Line 141: the bytes writeln writes after the data, &[b'\n'].
LineEndTwice == << Newline, Newline >>
LineEnd == << Newline >>

\* One poll_write of the pending write_all on child_stdin accepts n bytes.
PipeWrite(n) ==
    /\ n \in 1..(Len(wbuf) - woff)
    /\ children[Unwrap(proc.child_stdin)].state = "running"   \* the read end is open
\* The bytes the pipe has taken after that poll_write.
Written(n) == cur.written \o SubSeq(wbuf, woff + 1, woff + n)

\* writeln returns Err (the `?` after either write_all): the callback fails,
\* ClientConnection::new returns Err, and the `?` in RendererServer::spawn
\* returns it, dropping `proc`.
WriteFails ==
    /\ cur' = [cur EXCEPT !.sent = "err", !.hs = "failed"]
    /\ pc' = "drop"
    /\ wbuf' = << >>
    /\ woff' = 0

\* Line 140: self.child_stdin.write_all(data).await?
WriteData ==
    /\ pc = "write_data"
    /\ \/ WriteFails
       \/ \E n \in 1..Len(wbuf) :
            /\ PipeWrite(n)
            /\ cur' = [cur EXCEPT !.written = Written(n)]
            /\ IF WriteAllDone(wbuf, woff + n)
               THEN /\ pc' = "write_nl"
                    /\ wbuf' = LineEnd
                    /\ woff' = 0
               ELSE /\ pc' = pc
                    /\ wbuf' = wbuf
                    /\ woff' = woff + n
    /\ UNCHANGED << panicking, clientEnv, clientArgs, alive, runtime, signal, clientEnd, clientCode,
                    calls, spawned, children, tasks, proc >>

\* Lines 141-143: self.child_stdin.write_all(&[b'\n']).await?; Ok(())
\* On Ok the callback has returned and ClientConnection::new starts to wait
\* for the remote side to connect back.
WriteNewline ==
    /\ pc = "write_nl"
    /\ \/ WriteFails
       \/ \E n \in 1..Len(wbuf) :
            /\ PipeWrite(n)
            /\ IF WriteAllDone(wbuf, woff + n)
               THEN /\ pc' = "server_wait"
                    /\ wbuf' = << >>
                    /\ woff' = 0
                    /\ cur' = [cur EXCEPT !.written = Written(n), !.sent = "ok",
                                            !.waited = TRUE]
               ELSE /\ pc' = pc
                    /\ wbuf' = wbuf
                    /\ woff' = woff + n
                    /\ cur' = [cur EXCEPT !.written = Written(n)]
    /\ UNCHANGED << panicking, clientEnv, clientArgs, alive, runtime, signal, clientEnd, clientCode,
                    calls, spawned, children, tasks, proc >>

\* The line the companion reads from its stdin: the name and a newline.
HandshakeLine(name) == name \o << Newline >>

\* The companion's stdin starts with the line.
StartsWith(bytes, line) ==
    /\ Len(bytes) >= Len(line)
    /\ SubSeq(bytes, 1, Len(line)) = line

\* The companion has read the line and connected back: ClientConnection::new
\* returns Ok and RendererServer::spawn returns Ok(Self {proc, conn}).
ConnAccept ==
    /\ pc = "server_wait"
    /\ children[Unwrap(proc.child_stdin)].state = "running"
    /\ StartsWith(cur.written, HandshakeLine(cur.name))
    /\ cur' = [cur EXCEPT !.hs = "done", !.result = "ok"]
    /\ pc' = "ready"
    /\ UNCHANGED << panicking, clientEnv, clientArgs, alive, runtime, signal, clientEnd, clientCode,
                    calls, spawned, children, tasks, proc, wbuf, woff >>

\* The remote side never connects back (closure or time-out of the transport):
\* ClientConnection::new returns Err and the `?` in RendererServer::spawn
\* returns it, dropping `proc`.
ConnFail ==
    /\ pc = "server_wait"
    /\ cur' = [cur EXCEPT !["hs"] = "failed"]
    /\ pc' = "drop"
    /\ UNCHANGED << panicking, clientEnv, clientArgs, alive, runtime, signal, clientEnd, clientCode,
                    calls, spawned, children, tasks, proc, wbuf, woff >>

\* ------------------------------------------- RendererServer::send / recv
Send ==
    /\ pc = "ready"
    /\ cur.sends < MaxMsgs
    /\ cur' = [cur EXCEPT !["sends"] = cur.sends + 1]
    /\ UNCHANGED << pc, panicking, clientEnv, clientArgs, alive, runtime, signal, clientEnd, clientCode,
                    calls, spawned, children, tasks, proc, wbuf, woff >>

Recv ==
    /\ pc = "ready"
    /\ cur.recvs < MaxMsgs
    /\ cur' = [cur EXCEPT !["recvs"] = cur.recvs + 1]
    /\ UNCHANGED << pc, panicking, clientEnv, clientArgs, alive, runtime, signal, clientEnd, clientCode,
                    calls, spawned, children, tasks, proc, wbuf, woff >>

\* ------------------------------------------------ the owner of the session
\* The scope that owns the RendererServer ends normally: its fields are
\* dropped, `proc` first.
ScopeEnd ==
    /\ pc = "ready"
    /\ pc' = "drop"
    /\ UNCHANGED << panicking, clientEnv, clientArgs, alive, runtime, signal, clientEnd, clientCode,
                    calls, spawned, cur, children, tasks, proc, wbuf, woff >>

\* The thread that owns the RendererServer panics: unwinding drops it.
UserPanic ==
    /\ pc = "ready"
    /\ panicking' = TRUE
    /\ pc' = "drop"
    /\ UNCHANGED << clientEnv, clientArgs, alive, runtime, signal, clientEnd, clientCode,
                    calls, spawned, cur, children, tasks, proc, wbuf, woff >>

\* The client's main returns with its own exit code.
MainReturn ==
    /\ pc = "main"
    /\ clientEnd = "running"
    /\ \E c \in OwnCodes : clientCode' = Some(c)
    /\ clientEnd' = "returned"
    /\ pc' = "terminated"
    /\ alive' = FALSE
    /\ UNCHANGED << panicking, clientEnv, clientArgs, runtime, signal, calls, spawned, cur, children,
                    tasks, proc, wbuf, woff >>

\* --------------------------------------------- the companion processes
\* A companion ends on its own account: the user closes the window (success),
\* the renderer fails with a code, or it is terminated by a signal.
ChildExit(i) ==
    /\ children[i].state = "running"
    /\ \E st \in ExitStatuses :
         children' = [children EXCEPT ![i].state = "exited",
                                      ![i].status = Some(st)]
    /\ UNCHANGED << pc, panicking, clientEnv, clientArgs, alive, runtime, signal, clientEnd, clientCode,
                    calls, spawned, cur, tasks, proc, wbuf, woff >>

\* ------------------------------------------------ the client process
\* The thread that panicked was the main thread: the process ends with the
\* panic.  No destructor of the runtime or of its tasks runs, so a task the
\* runtime has not polled since is never polled again.
ProcessEnds ==
    /\ clientEnd = "panic"
    /\ alive
    /\ alive' = FALSE
    /\ UNCHANGED << pc, panicking, clientEnv, clientArgs, runtime, signal,
                    clientEnd, clientCode, calls, spawned, cur, children, tasks,
                    proc, wbuf, woff >>

\* The thread that panicked in spawn() or in the drop of its session was not
\* the main thread (a runtime task, whose panic becomes a JoinError, or a
\* thread of its own): only that thread ends and the program goes on in main.
\* start() runs first on the main thread, so a panic in it is not of this kind.
ThreadEnds ==
    /\ pc = "panicked"
    /\ alive
    /\ cur.proc # "pending"
    /\ pc' = "main"
    /\ panicking' = FALSE
    /\ clientEnd' = "running"
    /\ UNCHANGED << clientEnv, clientArgs, alive, runtime, signal, clientCode,
                    calls, spawned, cur, children, tasks, proc, wbuf, woff >>

\* ------------------------------------------------ the supervision tasks
\* The runtime polls a task only while the client process exists.
\* futures_util RemoteHandle (lines 116-119): when the handle is dropped the
\* Remote future stops at its next poll and drops the future it wraps (a
\* JoinHandle would detach instead).
CancelsOnDrop(h) == h = "dropped"

\* What the Child future of an ended process resolves to: Ok(its status).
ChildOutput(ch) == [ok |-> TRUE, status |-> Unwrap(ch.status)]

\* The runtime polls the task and the child has ended: the Child future
\* resolves to Ok(status), which the RemoteHandle will yield.
SuperviseReady(t) ==
    /\ alive
    /\ tasks[t].state = "pending"
    /\ ~CancelsOnDrop(tasks[t].handle)
    /\ children[tasks[t].child].state = "exited"
    /\ tasks' = [tasks EXCEPT ![t].state = "done",
                   ![t].output = Some(ChildOutput(children[tasks[t].child]))]
    /\ UNCHANGED << pc, panicking, clientEnv, clientArgs, alive, runtime, signal, clientEnd, clientCode,
                    calls, spawned, cur, children, proc, wbuf, woff >>

\* The OS-level wait on the child fails: the Child future resolves to Err and
\* is dropped with the finished task while kill_on_drop is still armed.
SuperviseErr(t) ==
    /\ alive
    /\ tasks[t].state = "pending"
    /\ ~CancelsOnDrop(tasks[t].handle)
    /\ tasks' = [tasks EXCEPT ![t].state = "done",
                   ![t].output = Some([ok |-> FALSE, status |-> KilledStatus])]
    /\ children' = [children EXCEPT ![tasks[t].child] = DropChild(@)]
    /\ UNCHANGED << pc, panicking, clientEnv, clientArgs, alive, runtime, signal, clientEnd, clientCode,
                    calls, spawned, cur, proc, wbuf, woff >>

\* The RemoteHandle was dropped before the task resolved: the task ends and
\* drops the Child, and kill_on_drop kills the process.
SuperviseCancel(t) ==
    /\ alive
    /\ tasks[t].state = "pending"
    /\ CancelsOnDrop(tasks[t].handle)
    /\ tasks' = [tasks EXCEPT ![t].state = "cancelled"]
    /\ children' = [children EXCEPT ![tasks[t].child] = DropChild(@)]
    /\ UNCHANGED << pc, panicking, clientEnv, clientArgs, alive, runtime, signal, clientEnd, clientCode,
                    calls, spawned, cur, proc, wbuf, woff >>

\* ------------------------------------- Drop for RendererServerProcess
\* Line 153: if thread::panicking() { return; }
FastPathNever(p) == FALSE
FastPath(p) == p

\* Line 168: proc_status.code().unwrap_or(1)
ExitCodeFor(st) == UnwrapOr(st.code, GenericFailureCode)

\* Which path of drop the thread is on.
DropPath == IF panicking THEN "panic" ELSE "normal"

\* drop() has returned: the fields of the struct are dropped (a RemoteHandle
\* still in task_handle included) and control goes back to whoever dropped
\* the struct: the unwinding, the failing RendererServer::spawn, or the scope
\* that owned the session.
DropReturns ==
    /\ cur' = [cur EXCEPT !.dropped = DropPath, !.outcome = "returned",
                            !.result = IF @ = "pending" THEN "conn_err" ELSE @]
    /\ proc' = NoProc
    /\ pc' = IF panicking THEN "panicked" ELSE "main"
    /\ clientEnd' = IF panicking THEN "panic" ELSE clientEnd
    /\ UNCHANGED << panicking, clientCode, children >>

\* Lines 148-165: the panicking check, and on the normal path the take() of
\* the task handle and the call of runtime_handle.block_on, on the thread and
\* in the context the owner is in by then.  On a thread that is inside the
\* runtime block_on panics at once ("Cannot start a runtime from within a
\* runtime") and the unwinding drops the handle that was taken; otherwise the
\* thread blocks in block_on.
Drop ==
    /\ pc = "drop"
    /\ IF FastPath(panicking)
       THEN /\ DropReturns
            /\ tasks' = IF IsSome(proc.task_handle)
                        THEN [tasks EXCEPT ![Unwrap(proc.task_handle)].handle = "dropped"]
                        ELSE tasks
       ELSE IF proc.task_handle = None
       THEN \* unwrap() on None panics
            /\ cur' = [cur EXCEPT !.dropped = DropPath, !.outcome = "unwrap_panic"]
            /\ proc' = NoProc
            /\ pc' = "panicked"
            /\ panicking' = TRUE
            /\ clientEnd' = "panic"
            /\ UNCHANGED << clientCode, children, tasks >>
       ELSE \E ctx \in ThreadContexts :
            IF InsideRuntime(ctx)
            THEN /\ tasks' = [tasks EXCEPT ![Unwrap(proc.task_handle)].handle = "dropped"]
                 /\ cur' = [cur EXCEPT !.dropped = DropPath, !.outcome = "reenter_panic"]
                 /\ proc' = NoProc
                 /\ pc' = "panicked"
                 /\ panicking' = TRUE
                 /\ clientEnd' = "panic"
                 /\ UNCHANGED << clientCode, children >>
            ELSE /\ tasks' = [tasks EXCEPT ![Unwrap(proc.task_handle)].handle = "taken"]
                 /\ proc' = [proc EXCEPT !.task_handle = None]
                 /\ cur' = [cur EXCEPT !.dropped = DropPath, !.outcome = "blocked"]
                 /\ pc' = "block_on"
                 /\ UNCHANGED << panicking, clientEnd, clientCode, children >>
    /\ UNCHANGED << clientEnv, clientArgs, alive, runtime, signal, calls, spawned, wbuf, woff >>

\* Lines 170-172: the Err(err) arm of the match panics.
OnWaitErrorIgnored == "returned"
OnWaitError == "fatal"

\* The task whose handle drop() holds in its local task_handle.
TakenTask == CHOOSE t \in 1..Len(tasks) : tasks[t].handle = "taken"

\* Lines 165-173: block_on(task_handle) returns once the task has resolved.
BlockOn ==
    /\ pc = "block_on"
    /\ tasks[TakenTask].state = "done"
    /\ tasks' = [tasks EXCEPT ![TakenTask].handle = "awaited"]
    /\ LET out == Unwrap(tasks[TakenTask].output) IN
       IF out.ok
       THEN IF Success(out.status)
            THEN DropReturns /\ UNCHANGED alive
            ELSE \* process::exit: the process ends, no destructor runs
                 /\ cur' = [cur EXCEPT !["outcome"] = "exit"]
                 /\ clientEnd' = "exit"
                 /\ clientCode' = Some(ExitCodeFor(out.status))
                 /\ pc' = "exited"
                 /\ alive' = FALSE
                 /\ UNCHANGED << panicking, proc, children >>
       ELSE IF OnWaitError = "returned"
       THEN DropReturns /\ UNCHANGED alive
       ELSE \* panic!("error while running child process: {}", err)
            /\ cur' = [cur EXCEPT !["outcome"] = "fatal"]
            /\ panicking' = TRUE
            /\ clientEnd' = "panic"
            /\ proc' = NoProc
            /\ pc' = "panicked"
            /\ UNCHANGED << clientCode, children, alive >>
    /\ UNCHANGED << clientEnv, clientArgs, runtime, signal, calls, spawned, wbuf, woff >>

Next ==
    \/ Start
    \/ PollSignal
    \/ RunMainReturns
    \/ ProcessSpawn
    \/ ConnNewStart
    \/ WriteData
    \/ WriteNewline
    \/ ConnAccept
    \/ ConnFail
    \/ Send
    \/ Recv
    \/ ScopeEnd
    \/ UserPanic
    \/ MainReturn
    \/ Drop
    \/ BlockOn
    \/ ProcessEnds
    \/ ThreadEnds
    \/ \E i \in 1..Len(children) : ChildExit(i)
    \/ \E t \in 1..Len(tasks) : SuperviseReady(t)
    \/ \E t \in 1..Len(tasks) : SuperviseErr(t)
    \/ \E t \in 1..Len(tasks) : SuperviseCancel(t)

Spec == Init /\ [][Next]_vars

\* The thread that runs drop goes on running: drop gets past its first
\* lines, and block_on returns or panics when it can.  Nothing is assumed of
\* the runtime: whether and when it polls a supervision task depends on its
\* flavour and on the client process staying alive.
LiveSpec == Spec /\ WF_vars(Drop) /\ WF_vars(BlockOn)

\* ================================================================ claims
\* The companions and supervision tasks that call c created.
ChildrenOf(c) == { i \in 1..Len(children) : children[i].call = c }
TasksOf(c) == { t \in 1..Len(tasks) : tasks[t].call = c }
\* The companion of the current call (there is one once its spawn was Ok).
CurChild == children[CHOOSE i \in ChildrenOf(calls) : TRUE]
\* The supervision task of the current call (there is one once its spawn was Ok).
CurTask == tasks[CHOOSE t \in TasksOf(calls) : TRUE]

\* drop() of the current call's struct, entered on the normal path, is over:
\* it returned, it ended the client with process::exit, or its block_on
\* panicked for being called inside the runtime.
NormalDropOver ==
    cur.dropped = "normal" /\ cur.outcome \in {"returned", "exit", "reenter_panic"}

\* C1 as claimed: on the normal (non-panicking) path, whenever drop is over
\* the companion has already exited, and on its own account: drop did not end
\* while the companion was running, and the client did not kill it through
\* kill_on_drop.
C1_NormalDropWaitsForChild ==
    NormalDropOver =>
        /\ CurChild.state = "exited"
        /\ ~CurChild.killedByClient

\* C2 as claimed: on normal drop, a companion that exited with success lets
\* drop return and the client goes on to end with its own code; one that
\* exited with a non-zero code c ends the client with exit code c; one that
\* ended without a code ends the client with exit code 1.
C2_ExitCodePropagated ==
    (NormalDropOver /\ CurTask.state = "done" /\ Unwrap(CurTask.output).ok) =>
        LET code == Unwrap(CurTask.output).status.code IN
        /\ code = Some(0) =>
              /\ cur.outcome = "returned"
              /\ clientEnd \in {"running", "returned"}
              /\ clientEnd = "returned" => clientCode \in {Some(c) : c \in OwnCodes}
        /\ (IsSome(code) /\ code # Some(0)) =>
              /\ cur.outcome = "exit"
              /\ clientEnd = "exit"
              /\ clientCode = code
        /\ code = None =>
              /\ cur.outcome = "exit"
              /\ clientEnd = "exit"
              /\ clientCode = Some(1)

\* Teardown on the panic path has finished: drop returned and the struct is gone.
PanicTeardownFinished ==
    pc = "panicked" /\ cur.dropped = "panic" /\ cur.outcome = "returned" /\ proc = NoProc

\* C3: a drop that starts while the thread is panicking always finishes, in
\* whatever state the companion is: it does not wait for the supervision task.
C3_PanicDropCompletes ==
    (pc = "drop" /\ panicking) ~> PanicTeardownFinished

\* C3 witness: teardown on the panic path has finished while the companion is
\* still running and its supervision task has not resolved.
C3_Witness ==
    /\ PanicTeardownFinished
    /\ CurChild.state = "running"
    /\ \A t \in TasksOf(calls) : tasks[t].state = "pending"

\* C4 as claimed: after a teardown on the panic path no companion is left
\* orphaned: once the client process is gone, no companion is running.
C4_PanicDropKillsChild ==
    (PanicTeardownFinished /\ ~alive) =>
        \A i \in 1..Len(children) : children[i].state # "running"

\* C5: when the client starts waiting for the connect-back, the companion's
\* stdin holds the whole name and its newline; and the connection is used
\* (a RendererServer exists, send or recv was called) only after the handshake
\* completed and RendererServer::spawn returned Ok.
C5_HandshakeBeforeTraffic ==
    /\ cur.waited => cur.written = cur.name \o << 10 >>
    /\ (pc = "ready" \/ cur.sends > 0 \/ cur.recvs > 0) =>
          /\ cur.hs = "done"
          /\ cur.result = "ok"
          /\ cur.waited

\* C5 witness: a send and a recv were made on a connection whose handshake
\* completed.
C5_Witness ==
    /\ cur.hs = "done"
    /\ cur.sends > 0
    /\ cur.recvs > 0

\* C6: send_ipc_oneshot_name reports Ok only when the companion's stdin
\* received every byte of the name followed by exactly one newline byte.
C6_WritelnAllOrError ==
    cur.sent = "ok" => cur.written = cur.name \o << 10 >>

\* C6 witness: a name of more than one byte was sent successfully.
C6_Witness ==
    /\ cur.sent = "ok"
    /\ Len(cur.name) > 1

\* C7 as claimed: after a handshake failure the client is neither blocked
\* waiting for the companion nor ended at process level.
C7_HandshakeFailureReturned ==
    cur.hs = "failed" =>
        /\ ~(pc = "block_on" /\ CurChild.state = "running")
        /\ clientEnd \notin {"exit", "panic"}

\* C8: every successful RendererServerProcess::spawn() created exactly one
\* companion, launched from the current executable with RUN_TURTLE_CANVAS set
\* to "true", and exactly one supervision task, which supervises it.
C8_OneCompanionPerSpawn ==
    \A c \in 1..Len(spawned) :
        spawned[c] = "ok" =>
            /\ Cardinality(ChildrenOf(c)) = 1
            /\ Cardinality(TasksOf(c)) = 1
            /\ \A i \in ChildrenOf(c) :
                  /\ children[i].exe = CurrentExe
                  /\ "RUN_TURTLE_CANVAS" \in DOMAIN children[i].env
                  /\ children[i].env["RUN_TURTLE_CANVAS"] = "true"
                  /\ \A t \in TasksOf(c) : tasks[t].child = i

\* C8 witness: two successful spawns, two companions, two tasks.
C8_Witness ==
    /\ Len(spawned) = 2
    /\ \A c \in 1..2 : spawned[c] = "ok"
    /\ Len(children) = 2
    /\ Len(tasks) = 2

\* C9 as claimed: a companion receives none of the client's arguments and
\* none of the client's environment variables other than RUN_TURTLE_CANVAS.
C9_CleanSlate ==
    \A i \in 1..Len(children) :
        /\ \A k \in 1..Len(children[i].args) :
              \A j \in 1..Len(clientArgs) : children[i].args[k] # clientArgs[j]
        /\ \A v \in DOMAIN children[i].env \cap DOMAIN clientEnv :
              v = "RUN_TURTLE_CANVAS"

\* C10 as claimed: a RendererServerProcess::spawn() that did not succeed
\* leaves nothing behind: no running companion, no supervision task, no struct
\* holding the stdin pipe.
C10_NoPartialState ==
    \A c \in 1..Len(spawned) :
        spawned[c] # "ok" =>
            /\ \A i \in ChildrenOf(c) : children[i].state # "running"
            /\ TasksOf(c) = {}
            /\ c = calls => proc = NoProc

\* C11: each of the three spawn failure causes (the executable path cannot
\* be resolved, the OS cannot create the process, the stdin pipe cannot be set
\* up) is returned to the caller as an I/O error, a ConnectionError from
\* RendererServer::spawn, and none of them panics or ends the process.
C11_SpawnFailuresReturned ==
    cur.cause \in {"exe_err", "os_err", "pipe_err"} =>
        /\ cur.proc = "io_err"
        /\ cur.result = "conn_err"
        /\ ~panicking
        /\ clientEnd \notin {"panic", "exit"}

\* C11 witness: the first call failed with an I/O error, the caller called
\* again, that call failed on the stdin pipe and returned its error too, and
\* the client went on to return from main.
C11_Witness ==
    /\ calls = 2
    /\ spawned[1] = "io_err"
    /\ cur.cause = "pipe_err"
    /\ cur.proc = "io_err"
    /\ clientEnd = "returned"

\* The marker of this process has exactly the value "true".
MarkerIsTrue ==
    /\ "RUN_TURTLE_CANVAS" \in DOMAIN clientEnv
    /\ clientEnv["RUN_TURTLE_CANVAS"] = "true"

\* A step in which start() is seen to run: the first call, or any call that
\* enters the server role.
StartStep == pc = "start" \/ (pc' = "run_main" /\ pc # "run_main")

\* C12: start() takes the server role exactly when RUN_TURTLE_CANVAS is "true";
\* with the marker absent or different, every call of start() returns at once
\* to main and changes nothing: no runtime, no process, same environment.
C12_StartSelectsRole ==
    /\ [](runtime => MarkerIsTrue)
    /\ [][ StartStep =>
             IF MarkerIsTrue
             THEN (pc' = "run_main" /\ runtime') \/ pc' = "panicked"
             ELSE /\ pc' = "main"
                  /\ UNCHANGED << panicking, clientEnv, clientArgs, alive, runtime, signal,
                                  clientEnd, clientCode, calls, spawned, cur,
                                  children, tasks, proc, wbuf, woff >> ]_vars

\* C12 witness: with the marker set to "false", start() has returned and the
\* process is in main as a client, with nothing built or spawned.
C12_Witness ==
    /\ pc = "main"
    /\ ~MarkerIsTrue
    /\ "RUN_TURTLE_CANVAS" \in DOMAIN clientEnv
    /\ ~runtime
    /\ calls = 0

\* C13: in an instance whose marker is "true", which calls start() first,
\* control never comes back to the caller of start(): the instance is in
\* start(), in run_main, or has panicked; it never calls spawn() and so never
\* creates a companion.  Every companion is such an instance.
C13_ServerNeverReturns ==
    /\ MarkerIsTrue =>
          /\ pc \in {"start", "run_main", "panicked"}
          /\ clientEnd \in {"running", "panic"}
          /\ calls = 0
          /\ children = << >>
    /\ \A i \in 1..Len(children) :
          /\ "RUN_TURTLE_CANVAS" \in DOMAIN children[i].env
          /\ children[i].env["RUN_TURTLE_CANVAS"] = "true"

\* C13 witness: run_main returned in a server instance and the unreachable!
\* panicked.
C13_Witness ==
    /\ MarkerIsTrue
    /\ runtime
    /\ pc = "panicked"
    /\ clientEnd = "panic"

\* C17 as claimed: the completion signal start() passes to the render loop
\* never resolves.
C17_SignalNeverResolves == signal # "ready"

\* C17 amended: the completion signal is a no-op future that exists only in
\* the server role and resolves on its first poll: a poll never leaves it
\* pending.
C17_SignalResolvesWhenPolled ==
    /\ signal \in {"none", "created", "ready"}
    /\ signal # "none" => (MarkerIsTrue /\ runtime)

\* C17 witness: run_main polled the signal and it is resolved.
C17_Witness ==
    /\ signal = "ready"
    /\ pc = "run_main"

\* block_on in the current call's drop has yielded Err: the wait on the child
\* failed.
WaitFailed ==
    /\ cur.proc = "ok"
    /\ CurTask.handle = "awaited"
    /\ ~Unwrap(CurTask.output).ok

\* C14: on normal drop, when waiting on the supervision task yields an error
\* the dropping thread panics: drop neither returns silently nor calls
\* process::exit.
C14_WaitErrorIsFatal ==
    (cur.dropped = "normal" /\ WaitFailed) =>
        /\ cur.outcome = "fatal"
        /\ clientEnd # "exit"
        /\ pc = "panicked" =>
              /\ panicking
              /\ clientEnd = "panic"
              /\ clientCode = None

\* C14 witness: a normal drop whose wait failed has panicked.
C14_Witness ==
    /\ cur.dropped = "normal"
    /\ WaitFailed
    /\ cur.outcome = "fatal"

\* Teardown of the current call's struct is over.
TornDown == cur.outcome \in {"returned", "exit", "fatal", "reenter_panic"}

\* C15: drop is entered at most once per struct and always finds task_handle
\* to be Some, so take().unwrap() never panics, also after a failed handshake;
\* a normal teardown has taken the handle out of the struct and awaited or
\* dropped it; and a finished teardown is
\* never reversed or repeated for that struct.
C15_TeardownOnce ==
    /\ [](pc = "drop" =>
            /\ proc.exists
            /\ IsSome(proc.task_handle)
            /\ cur.dropped = "none"
            /\ CurTask.handle = "field")
    /\ [](cur.outcome # "unwrap_panic")
    /\ []((TornDown /\ cur.dropped = "normal") =>
            /\ CurTask.handle \in {"awaited", "dropped"}
            /\ proc.task_handle = None)
    /\ [][ (TornDown /\ calls' = calls) =>
             /\ cur'.outcome = cur.outcome
             /\ cur'.dropped = cur.dropped
             /\ pc' \notin {"drop", "block_on"} ]_vars

\* C15 witness: the struct was dropped after a failed handshake, its handle
\* was taken and awaited, and drop returned.
C15_Witness ==
    /\ cur.hs = "failed"
    /\ cur.dropped = "normal"
    /\ cur.outcome = "returned"
    /\ CurTask.handle = "awaited"

\* C16: the bytes a companion receives on its stdin are at most one
\* newline-terminated line, and for a session that RendererServer::spawn
\* returned they are exactly the name and one newline, whatever send, recv or
\* drop did afterwards.
C16_OneLineOnStdin ==
    /\ cur.result = "ok" => cur.written = cur.name \o << 10 >>
    /\ \A k \in 1..Len(cur.written) :
          cur.written[k] = 10 => k = Len(cur.written)

\* C16 witness: a session was used for a send and a recv and torn down, and
\* its companion's stdin holds the one line.
C16_Witness ==
    /\ cur.result = "ok"
    /\ cur.sends > 0
    /\ cur.recvs > 0
    /\ cur.outcome = "returned"
    /\ cur.written = cur.name \o << 10 >>

\* C18: on the panic path drop does not take or await the task handle, does
\* not call process::exit and does not panic again: the thread ends by the
\* original panic, and no exit code is taken from the companion (a client
\* that goes on in main ends with a code of its own).
C18_PanicDropIgnoresStatus ==
    cur.dropped = "panic" =>
        /\ cur.outcome = "returned"
        /\ CurTask.handle = "dropped"
        /\ clientEnd # "exit"
        /\ clientEnd = "returned" => clientCode \in {Some(c) : c \in OwnCodes}
        /\ pc = "panicked" =>
              /\ clientEnd = "panic"
              /\ clientCode = None

\* C18 witness: the companion had exited on its own with code 3 before the
\* teardown on the panic path.
C18_Witness ==
    /\ PanicTeardownFinished
    /\ CurChild.state = "exited"
    /\ ~CurChild.killedByClient
    /\ Unwrap(CurChild.status).code = Some(3)

\* The client is between spawn() and drop of the current call.
SessionInUse == pc \in {"conn_new", "write_data", "write_nl", "server_wait", "ready"}

\* C19 as claimed: a companion that exits while the session is in use does not
\* end the client (process::exit happens only in drop); a resolved supervision
\* task holds the companion's real status; and a normal drop that finds the
\* task resolved does not stay blocked and acts on that status: it returns
\* when the status is success and calls process::exit otherwise.
C19_StatusRetainedUntilDrop ==
    /\ SessionInUse => clientEnd = "running"
    /\ clientEnd = "exit" => (cur.outcome = "exit" /\ cur.dropped = "normal")
    /\ \A t \in 1..Len(tasks) :
          (tasks[t].state = "done" /\ Unwrap(tasks[t].output).ok) =>
              /\ children[tasks[t].child].state = "exited"
              /\ Unwrap(tasks[t].output).status = Unwrap(children[tasks[t].child].status)
    /\ (cur.dropped = "normal" /\ cur.outcome # "blocked"
          /\ CurTask.state = "done" /\ Unwrap(CurTask.output).ok) =>
          IF Success(Unwrap(CurTask.output).status)
          THEN cur.outcome = "returned"
          ELSE cur.outcome = "exit"

====
